---- MODULE Spec2Model ----
(***************************************************************************)
(* Online speaker tracking (src/python/diarization.py, SpeakerTracker).    *)
(*                                                                         *)
(* Vectors are exact decimal rationals: [num |-> <<n1..nd>>, exp |-> k]    *)
(* stands for the vector num / 10^k.  Embeddings have exp = 0.  Arithmetic *)
(* is the real arithmetic of the numpy expressions; rounding of IEEE       *)
(* doubles is not modelled.  A cosine similarity s is the record           *)
(* [sgn, num, den] with s = sgn * sqrt(num / den), so that similarities    *)
(* are compared exactly without square roots.                              *)
(***************************************************************************)
EXTENDS Integers, Sequences, FiniteSets, TLC

VARIABLES
    _model,        \* self._model: None, or the handle made by the n-th load
    _load_failed,  \* self._load_failed
    _speakers,     \* self._speakers: sequence of [label, centroid]
    ret,           \* what the last call returned to its caller
    raised,        \* whether the last call ended with an exception escaping
    path,          \* which return statement the last call left through
    embedding,     \* the local `embedding` of the last assign (line 46)
    invoked,       \* whether the last call ran self._model(...) (line 95)
    load_calls,    \* how many times _load_model got past its guard (line 59)
    samples,       \* len(audio_pcm) of the last assign, -1 for another call
    pool,          \* the embeddings the backend returns during this run
    threads,       \* per calling thread: where its assign call stands and
                   \* the locals of its _match_or_create frame
    overlap        \* whether a call was entered while another was running

vars == <<_model, _load_failed, _speakers, ret, raised, path, embedding,
          invoked, load_calls, samples, pool, threads, overlap>>

----------------------------------------------------------------------------
(* Bounds of the model *)

MaxSpeakers == 2

MaxDigits == 1

(* Program constants *)

MIN_SAMPLES == 1600

MATCH_THRESHOLD_NUM == 82

MATCH_THRESHOLD_DEN == 100

None == "None"

(* self._model = None (line 34); a loaded handle is a positive number *)
NoModel == 0

NoVec == [num |-> <<>>, exp |-> 0]

Vec(t) == [num |-> t, exp |-> 0]

(* The embeddings the backend may return.  <<3,4,0,0>> and <<7,5,5,1>>    *)
(* have cosine similarity exactly 41/50 = 0.82; <<2,1,0,0>> and           *)
(* <<1,2,0,0>> have 0.8 with each other and 3/sqrt(10) with <<1,1,0,0>>.  *)
Embeddings ==
    { Vec(<<0, 0, 0, 0>>), Vec(<<3, 4, 0, 0>>), Vec(<<7, 5, 5, 1>>),
      Vec(<<2, 1, 0, 0>>), Vec(<<1, 2, 0, 0>>), Vec(<<1, 1, 0, 0>>),
      Vec(<<-3, -4, 0, 0>>) }

Lengths == {0, MIN_SAMPLES - 1, MIN_SAMPLES}

----------------------------------------------------------------------------
(* Vector arithmetic *)

RECURSIVE SumTo(_, _)
SumTo(f, n) == IF n = 0 THEN 0 ELSE f[n] + SumTo(f, n - 1)

Dot(a, b) == SumTo([i \in 1..Len(a) |-> a[i] * b[i]], Len(a))

NormSq(a) == Dot(a, a)

RECURSIVE Reduce(_)
Reduce(v) ==
    IF v.exp > 0 /\ \A i \in 1..Len(v.num) : v.num[i] % 10 = 0
    THEN Reduce([num |-> [i \in 1..Len(v.num) |-> v.num[i] \div 10],
                 exp |-> v.exp - 1])
    ELSE v

(* t/10 * v *)
ScaleTenths(t, v) ==
    [num |-> [i \in 1..Len(v.num) |-> t * v.num[i]], exp |-> v.exp + 1]

VecAdd(x, y) ==
    LET k == IF x.exp > y.exp THEN x.exp ELSE y.exp
    IN  [num |-> [i \in 1..Len(x.num) |->
                     x.num[i] * 10^(k - x.exp) + y.num[i] * 10^(k - y.exp)],
         exp |-> k]

(* a/b < c/d for a, c >= 0 and b, d > 0, by continued fractions *)
RECURSIVE FracLess(_, _, _, _)
FracLess(a, b, c, d) ==
    LET qa == a \div b
        qc == c \div d
        ra == a % b
        rc == c % d
    IN  IF qa # qc THEN qa < qc
        ELSE IF rc = 0 THEN FALSE
        ELSE IF ra = 0 THEN TRUE
        ELSE FracLess(d, rc, b, ra)

SimLess(x, y) ==
    IF x.sgn # y.sgn THEN x.sgn < y.sgn
    ELSE IF x.sgn = 0 THEN FALSE
    ELSE IF x.sgn = 1 THEN FracLess(x.num, x.den, y.num, y.den)
    ELSE FracLess(y.num, y.den, x.num, x.den)

SimZero == [sgn |-> 0, num |-> 0, den |-> 1]

SimMinusOne == [sgn |-> -1, num |-> 1, den |-> 1]

SimOne == [sgn |-> 1, num |-> 1, den |-> 1]

Threshold ==
    [sgn |-> 1, num |-> MATCH_THRESHOLD_NUM * MATCH_THRESHOLD_NUM,
     den |-> MATCH_THRESHOLD_DEN * MATCH_THRESHOLD_DEN]

(* _cosine_sim that takes two vectors of norm 0 apart from line 25 for     *)
(* identical                                                               *)
_cosine_sim_zero_is_one(a, b) ==
    LET norm_a2 == NormSq(a.num)
        norm_b2 == NormSq(b.num)
        dot == Dot(a.num, b.num)
    IN  IF norm_a2 = 0 /\ norm_b2 = 0 THEN SimOne
        ELSE IF norm_a2 = 0 \/ norm_b2 = 0 THEN SimZero
        ELSE IF dot = 0 THEN SimZero
        ELSE [sgn |-> IF dot > 0 THEN 1 ELSE -1,
              num |-> dot * dot, den |-> norm_a2 * norm_b2]

(* _cosine_sim without the division by the norms *)
_cosine_sim_unnormalized(a, b) ==
    LET norm_a2 == NormSq(a.num)
        norm_b2 == NormSq(b.num)
        dot == Dot(a.num, b.num)
    IN  IF norm_a2 = 0 \/ norm_b2 = 0 THEN SimZero
        ELSE IF dot = 0 THEN SimZero
        ELSE [sgn |-> IF dot > 0 THEN 1 ELSE -1,
              num |-> dot * dot, den |-> 1]

(* lines 22-27 *)
_cosine_sim(a, b) ==
    LET norm_a2 == NormSq(a.num)
        norm_b2 == NormSq(b.num)
        dot == Dot(a.num, b.num)
    IN  IF norm_a2 = 0 \/ norm_b2 = 0 THEN SimZero
        ELSE IF dot = 0 THEN SimZero
        ELSE [sgn |-> IF dot > 0 THEN 1 ELSE -1,
              num |-> dot * dot, den |-> norm_a2 * norm_b2]

----------------------------------------------------------------------------
(* SpeakerTracker._load_model *)

(* load_guard without `self._model is not None` *)
load_guard_failed_only(m, lf) == lf

(* line 57: the early return *)
load_guard(m, lf) == m # NoModel \/ lf

(* try_load with line 88 forgotten *)
try_load_no_flag(loadOk, calls) ==
    IF loadOk
    THEN [model |-> calls + 1, load_failed |-> FALSE]
    ELSE [model |-> NoModel, load_failed |-> FALSE]

(* lines 65-88: the try block; `except Exception` turns every load error   *)
(* into _load_failed = True                                                 *)
try_load(loadOk, calls) ==
    IF loadOk
    THEN [model |-> calls + 1, load_failed |-> FALSE]
    ELSE [model |-> NoModel, load_failed |-> TRUE]

(* _load_model that checks for ffmpeg after the load and goes on *)
_load_model_check_late(m, lf, calls, ffmpeg, loadOk) ==
    IF load_guard(m, lf)
    THEN [model |-> m, load_failed |-> lf, load_calls |-> calls]
    ELSE LET t == try_load(loadOk, calls)
         IN  [model |-> t.model, load_failed |-> t.load_failed \/ ~ffmpeg,
              load_calls |-> calls + 1]

(* lines 56-88 *)
_load_model(m, lf, calls, ffmpeg, loadOk) ==
    IF load_guard(m, lf)
    THEN [model |-> m, load_failed |-> lf, load_calls |-> calls]
    ELSE IF ~ffmpeg
    THEN [model |-> NoModel, load_failed |-> TRUE, load_calls |-> calls + 1]
    ELSE LET t == try_load(loadOk, calls)
         IN  [model |-> t.model, load_failed |-> t.load_failed,
              load_calls |-> calls + 1]

(* _embed that marks the backend failed when inference raises *)
_embed_sticky(m, lf, calls, ffmpeg, loadOk, inferOk, e) ==
    LET l == _load_model(m, lf, calls, ffmpeg, loadOk)
    IN  IF l.model = NoModel
        THEN [model |-> l.model, load_failed |-> l.load_failed,
              load_calls |-> l.load_calls, invoked |-> FALSE,
              exc |-> "RuntimeError", value |-> NoVec]
        ELSE IF ~inferOk
        THEN [model |-> l.model, load_failed |-> TRUE,
              load_calls |-> l.load_calls, invoked |-> TRUE,
              exc |-> "InferenceError", value |-> NoVec]
        ELSE [model |-> l.model, load_failed |-> l.load_failed,
              load_calls |-> l.load_calls, invoked |-> TRUE,
              exc |-> "", value |-> e]

(* SpeakerTracker._embed: exc is "" when the call returns normally *)
_embed(m, lf, calls, ffmpeg, loadOk, inferOk, e) ==
    LET l == _load_model(m, lf, calls, ffmpeg, loadOk)
    IN  IF l.model = NoModel
        THEN [model |-> l.model, load_failed |-> l.load_failed,
              load_calls |-> l.load_calls, invoked |-> FALSE,
              exc |-> "RuntimeError", value |-> NoVec]
        ELSE IF ~inferOk
        THEN [model |-> l.model, load_failed |-> l.load_failed,
              load_calls |-> l.load_calls, invoked |-> TRUE,
              exc |-> "InferenceError", value |-> NoVec]
        ELSE [model |-> l.model, load_failed |-> l.load_failed,
              load_calls |-> l.load_calls, invoked |-> TRUE,
              exc |-> "", value |-> e]

----------------------------------------------------------------------------
(* SpeakerTracker._match_or_create *)

(* lines 102-106: the scan, from entry i on *)
RECURSIVE scan(_, _, _, _)
scan(spk, e, i, best) ==
    IF i > Len(spk) THEN best
    ELSE LET sim == _cosine_sim(e, spk[i].centroid)
         IN  IF SimLess(best.sim, sim)
             THEN scan(spk, e, i + 1, [sim |-> sim, label |-> spk[i].label])
             ELSE scan(spk, e, i + 1, best)

(* accept with > for >= *)
accept_strict(best) ==
    best.label # None /\ SimLess(Threshold, best.sim)

(* accept without the threshold *)
accept_any(best) == best.label # None

(* line 108 *)
accept(best) ==
    best.label # None /\ ~SimLess(best.sim, Threshold)

(* line 109: next(i for i, (l, _) in enumerate(...) if l == best_label) *)
first_index(spk, label) ==
    CHOOSE i \in 1..Len(spk) :
        /\ spk[i].label = label
        /\ \A j \in 1..(i - 1) : spk[j].label # label

(* updated_centroid with the two weights exchanged *)
updated_centroid_swapped(old_centroid, e) ==
    Reduce(VecAdd(ScaleTenths(1, old_centroid), ScaleTenths(9, e)))

(* updated_centroid that stores the embedding in place of the average *)
updated_centroid_replaced(old_centroid, e) == e

(* line 111: 0.9 * old_centroid + 0.1 * embedding *)
updated_centroid(old_centroid, e) ==
    Reduce(VecAdd(ScaleTenths(9, old_centroid), ScaleTenths(1, e)))

(* new_label without the + 1 *)
new_label_from_zero(spk) == "Speaker " \o ToString(Len(spk))

(* new_label that counts from the first entry's number *)
new_label_plus_two(spk) == "Speaker " \o ToString(Len(spk) + 2)

(* line 114: f"Speaker {len(self._speakers) + 1}" *)
new_label(spk) == "Speaker " \o ToString(Len(spk) + 1)

(* append_speaker with insert(0, ...) for append *)
append_speaker_front(spk, label, e) ==
    <<[label |-> label, centroid |-> e]>> \o spk

(* append_speaker run twice *)
append_speaker_twice(spk, label, e) ==
    Append(Append(spk, [label |-> label, centroid |-> e]),
           [label |-> label, centroid |-> e])

(* line 115 *)
append_speaker(spk, label, e) ==
    Append(spk, [label |-> label, centroid |-> e])

_match_or_create(spk, e) ==
    LET best == scan(spk, e, 1, [sim |-> SimMinusOne, label |-> None])
    IN  IF accept(best)
        THEN LET idx == first_index(spk, best.label)
             IN  [speakers |->
                      [spk EXCEPT ![idx] =
                          [label |-> best.label,
                           centroid |-> updated_centroid(spk[idx].centroid, e)]],
                  ret |-> best.label, path |-> "matched"]
        ELSE LET label == new_label(spk)
             IN  [speakers |-> append_speaker(spk, label, e),
                  ret |-> label, path |-> "created"]

----------------------------------------------------------------------------
(* SpeakerTracker.assign *)

(* line 39 *)
too_short(n) == n < MIN_SAMPLES

(* short_label with self._speakers[-1] for self._speakers[0] *)
short_label_last(spk) ==
    IF Len(spk) > 0 THEN spk[Len(spk)].label ELSE "Speaker 1"

(* line 40 *)
short_label(spk) == IF Len(spk) > 0 THEN spk[1].label ELSE "Speaker 1"

(* catches with `except RuntimeError` for `except Exception` *)
catches_runtime_only(exc) == exc = "RuntimeError"

(* line 47: which exceptions of _embed the except clause catches *)
catches(exc) == exc \in {"RuntimeError", "InferenceError"}

(* The whole call: the next state and what the caller sees *)
assign_outcome(n, ffmpeg, loadOk, inferOk, e) ==
    LET same == [model |-> _model, load_failed |-> _load_failed,
                 speakers |-> _speakers, load_calls |-> load_calls,
                 raised |-> FALSE, embedding |-> NoVec, invoked |-> FALSE,
                 ret |-> None, path |-> ""]
    IN  IF too_short(n)
        THEN [same EXCEPT !.ret = short_label(_speakers), !.path = "short"]
        ELSE IF _load_failed
        THEN [same EXCEPT !.ret = "Speaker 1", !.path = "unavailable"]
        ELSE LET r == _embed(_model, _load_failed, load_calls,
                             ffmpeg, loadOk, inferOk, e)
                 after == [same EXCEPT !.model = r.model,
                                       !.load_failed = r.load_failed,
                                       !.load_calls = r.load_calls,
                                       !.invoked = r.invoked]
             IN  IF r.exc # ""
                 THEN IF catches(r.exc)
                      THEN [after EXCEPT !.ret = "Speaker 1",
                                         !.path = "embed_failed"]
                      ELSE [after EXCEPT !.ret = None, !.raised = TRUE,
                                         !.path = "embed_failed"]
                 ELSE LET m == _match_or_create(_speakers, r.value)
                      IN  [after EXCEPT !.speakers = m.speakers,
                                        !.ret = m.ret, !.path = m.path,
                                        !.embedding = r.value]

WithinBounds(spk) ==
    /\ Len(spk) <= MaxSpeakers
    /\ \A i \in 1..Len(spk) : spk[i].centroid.exp <= MaxDigits

assign(n, ffmpeg, loadOk, inferOk, e) ==
    \E o \in {assign_outcome(n, ffmpeg, loadOk, inferOk, e)} :
        /\ WithinBounds(o.speakers)
        /\ _model' = o.model
        /\ _load_failed' = o.load_failed
        /\ _speakers' = o.speakers
        /\ load_calls' = o.load_calls
        /\ ret' = o.ret
        /\ raised' = o.raised
        /\ path' = o.path
        /\ embedding' = o.embedding
        /\ invoked' = o.invoked
        /\ samples' = n
        /\ UNCHANGED <<pool, threads, overlap>>

(* cleared with pop() for clear() *)
cleared_pop(spk) == SubSeq(spk, 1, Len(spk) - 1)

(* SpeakerTracker.reset, line 54 *)
cleared(spk) == <<>>

reset ==
    /\ _speakers' = cleared(_speakers)
    /\ ret' = None
    /\ raised' = FALSE
    /\ path' = "reset"
    /\ embedding' = NoVec
    /\ invoked' = FALSE
    /\ samples' = -1
    /\ UNCHANGED <<_model, _load_failed, load_calls, pool, threads, overlap>>

(* SpeakerTracker.__init__, lines 31-36 *)
Constructed ==
    /\ _model = NoModel
    /\ _load_failed = FALSE
    /\ _speakers = <<>>
    /\ ret = None
    /\ raised = FALSE
    /\ path = "init"
    /\ embedding = NoVec
    /\ invoked = FALSE
    /\ load_calls = 0
    /\ samples = -1

(* One caller at a time: no frame of another thread exists *)
NoThreads == <<>>

Init ==
    /\ Constructed
    /\ pool = Embeddings
    /\ threads = NoThreads
    /\ overlap = FALSE

(* What the environment does during one call: ffmpeg on PATH or not, the   *)
(* model load succeeding or not, inference raising or returning e.         *)
(* loadOk is only read when ffmpeg is TRUE, and e only when inferOk is; a  *)
(* call that fails before inference does the same whatever inferOk is.     *)
(* So these records give every transition that the full product            *)
(* BOOLEAN \X BOOLEAN \X BOOLEAN \X Embeddings gives.                      *)
Backends ==
    {[ffmpeg |-> f[1], loadOk |-> f[2], inferOk |-> TRUE, e |-> e] :
        f \in {<<TRUE, TRUE>>, <<FALSE, TRUE>>, <<TRUE, FALSE>>},
        e \in Embeddings}
    \cup {[ffmpeg |-> TRUE, loadOk |-> TRUE, inferOk |-> FALSE, e |-> NoVec]}

Assign ==
    \E n \in Lengths, b \in Backends :
        assign(n, b.ffmpeg, b.loadOk, b.inferOk, b.e)

Next == Assign \/ reset

Spec == Init /\ [][Next]_vars

----------------------------------------------------------------------------
(* A run of long segments over a working backend whose embeddings all come *)
(* from one set, fixed when the tracker is constructed.                    *)

Pools == SUBSET Embeddings \ {{}}

InitPool ==
    /\ Constructed
    /\ pool \in Pools
    /\ threads = NoThreads
    /\ overlap = FALSE

NextPool == \E e \in pool : assign(MIN_SAMPLES, TRUE, TRUE, TRUE, e)

SpecPool == InitPool /\ [][NextPool]_vars

----------------------------------------------------------------------------
(* Two threads that each call assign once on one tracker, with no lock     *)
(* around the call.  The interpreter switches threads between bytecodes,   *)
(* so each read and each write of self._speakers is a step of its own.     *)
(* The model is loaded and each thread's segment is long enough, so each   *)
(* call gets its embedding and reaches _match_or_create.                   *)

Threads == {1, 2}

(* lines 99-100 *)
NoBest == [sim |-> SimMinusOne, label |-> None]

NotCalled(e) ==
    [pc |-> "idle", embedding |-> e, i |-> 1, best |-> NoBest, idx |-> 0,
     old_centroid |-> NoVec, new_label |-> None, ret |-> None, path |-> ""]

Busy(t) == threads[t].pc \notin {"idle", "done"}

(* The registries that calls made one after another leave behind *)
Registries ==
    {<<>>}
    \cup {_match_or_create(<<>>, a).speakers : a \in Embeddings}
    \cup {_match_or_create(_match_or_create(<<>>, a).speakers, b).speakers :
              a \in Embeddings, b \in Embeddings}

(* lines 39-46: the call is entered and the embedding extracted *)
t_call(t) ==
    /\ threads[t].pc = "idle"
    /\ ~too_short(MIN_SAMPLES)
    /\ ~_load_failed
    /\ _model # NoModel
    /\ threads' = [threads EXCEPT ![t].pc = "scan"]
    /\ overlap' = (overlap \/ \E u \in Threads \ {t} : Busy(u))
    /\ UNCHANGED <<_model, _load_failed, _speakers, ret, raised, path,
                   embedding, invoked, load_calls, samples, pool>>

(* lines 102-108: one turn of the loop over the list as it is now, or the  *)
(* end of the loop and the test of line 108                                *)
t_scan(t) ==
    /\ threads[t].pc = "scan"
    /\ threads' =
           IF threads[t].i <= Len(_speakers)
           THEN [threads EXCEPT
                    ![t].best = scan(SubSeq(_speakers, threads[t].i, threads[t].i),
                                     threads[t].embedding, 1, threads[t].best),
                    ![t].i = threads[t].i + 1]
           ELSE [threads EXCEPT
                    ![t].pc = IF accept(threads[t].best) THEN "find" ELSE "label"]
    /\ UNCHANGED <<_model, _load_failed, _speakers, ret, raised, path,
                   embedding, invoked, load_calls, samples, pool, overlap>>

(* line 109 *)
t_find(t) ==
    /\ threads[t].pc = "find"
    /\ threads' = [threads EXCEPT
                      ![t].idx = first_index(_speakers, threads[t].best.label),
                      ![t].pc = "read"]
    /\ UNCHANGED <<_model, _load_failed, _speakers, ret, raised, path,
                   embedding, invoked, load_calls, samples, pool, overlap>>

(* line 110 *)
t_read(t) ==
    /\ threads[t].pc = "read"
    /\ threads' = [threads EXCEPT
                      ![t].old_centroid = _speakers[threads[t].idx].centroid,
                      ![t].pc = "write"]
    /\ UNCHANGED <<_model, _load_failed, _speakers, ret, raised, path,
                   embedding, invoked, load_calls, samples, pool, overlap>>

(* lines 111-112 *)
t_write(t) ==
    /\ threads[t].pc = "write"
    /\ _speakers' =
           [_speakers EXCEPT ![threads[t].idx] =
               [label |-> threads[t].best.label,
                centroid |-> updated_centroid(threads[t].old_centroid,
                                              threads[t].embedding)]]
    /\ threads' = [threads EXCEPT ![t].ret = threads[t].best.label,
                                  ![t].path = "matched",
                                  ![t].pc = "done"]
    /\ UNCHANGED <<_model, _load_failed, ret, raised, path,
                   embedding, invoked, load_calls, samples, pool, overlap>>

(* line 114 *)
t_label(t) ==
    /\ threads[t].pc = "label"
    /\ threads' = [threads EXCEPT ![t].new_label = new_label(_speakers),
                                  ![t].pc = "append"]
    /\ UNCHANGED <<_model, _load_failed, _speakers, ret, raised, path,
                   embedding, invoked, load_calls, samples, pool, overlap>>

(* lines 115-117 *)
t_append(t) ==
    /\ threads[t].pc = "append"
    /\ _speakers' = append_speaker(_speakers, threads[t].new_label,
                                   threads[t].embedding)
    /\ threads' = [threads EXCEPT ![t].ret = threads[t].new_label,
                                  ![t].path = "created",
                                  ![t].pc = "done"]
    /\ UNCHANGED <<_model, _load_failed, ret, raised, path,
                   embedding, invoked, load_calls, samples, pool, overlap>>

(* A tracker whose model is loaded and whose registry earlier calls built, *)
(* and two threads about to call assign                                    *)
InitThreads ==
    /\ _model = 1
    /\ _load_failed = FALSE
    /\ _speakers \in Registries
    /\ ret = None
    /\ raised = FALSE
    /\ path = "init"
    /\ embedding = NoVec
    /\ invoked = FALSE
    /\ load_calls = 1
    /\ samples = -1
    /\ pool = Embeddings
    /\ threads \in [Threads -> {NotCalled(e) : e \in Embeddings}]
    /\ overlap = FALSE

NextThreads ==
    \E t \in Threads :
        \/ t_call(t)
        \/ t_scan(t)
        \/ t_find(t)
        \/ t_read(t)
        \/ t_write(t)
        \/ t_label(t)
        \/ t_append(t)

SpecThreads == InitThreads /\ [][NextThreads]_vars

----------------------------------------------------------------------------
(* Properties *)

IsSpeakerLabel(s) ==
    \E k \in 1..(MaxSpeakers + 1) : s = "Speaker " \o ToString(k)

IsAssign(p) == p \in {"short", "unavailable", "embed_failed", "matched", "created"}

Extracted(p) == p \in {"matched", "created"}

SimGE(x, y) == ~SimLess(x, y)

(* C1: every assign call returns a label "Speaker N" with N >= 1 and no    *)
(* exception escapes it, whatever the segment length and the backend do.   *)
C1_AssignNeverFails ==
    IsAssign(path) => ~raised /\ IsSpeakerLabel(ret)

C1_Witness ==
    path = "embed_failed" /\ invoked /\ Len(_speakers) = 0 /\ ret = "Speaker 1"

C2_LabelInv ==
    /\ \A i \in 1..Len(_speakers) :
           _speakers[i].label = "Speaker " \o ToString(i)
    /\ \A i, j \in 1..Len(_speakers) :
           i # j => _speakers[i].label # _speakers[j].label

C2_LabelStable ==
    path' # "reset" =>
        /\ Len(_speakers') >= Len(_speakers)
        /\ \A i \in 1..Len(_speakers) :
               _speakers'[i].label = _speakers[i].label

(* C2: the entry at position i has label "Speaker i", no two entries share *)
(* a label, and no call other than reset changes the label of an entry.    *)
C2_Labels == []C2_LabelInv /\ [][C2_LabelStable]_vars

C2_Witness ==
    Len(_speakers) = 2 /\ path = "matched" /\ ret = "Speaker 2"

C3_Marked == load_calls > 0 /\ _model = NoModel => _load_failed

C3_Step ==
    _load_failed =>
        /\ _load_failed'
        /\ _model' = _model
        /\ load_calls' = load_calls
        /\ ~invoked'
        /\ IsAssign(path') => ret' = "Speaker 1" /\ ~raised'

(* C3: a load attempt that yields no model marks the backend unavailable;  *)
(* once unavailable it stays so, every later assign returns "Speaker 1",   *)
(* and no later call attempts a load or invokes the model.                 *)
C3_StickyUnavailable == []C3_Marked /\ [][C3_Step]_vars

C3_Witness ==
    _load_failed /\ path = "unavailable" /\ ret = "Speaker 1"

C4_Step ==
    IsAssign(path') /\ samples' < MIN_SAMPLES =>
        /\ ret' = IF Len(_speakers) > 0 THEN _speakers[1].label
                  ELSE "Speaker 1"
        /\ ~raised'
        /\ load_calls' = load_calls
        /\ ~invoked'
        /\ UNCHANGED <<_speakers, _model, _load_failed>>

(* C4: an assign with fewer than MIN_SAMPLES samples returns the first     *)
(* entry's label, or "Speaker 1" when the registry is empty, attempts no   *)
(* load, does not invoke the model, and changes neither the registry nor   *)
(* the model handle nor the unavailable flag.                              *)
C4_ShortSegment == [][C4_Step]_vars

C4_Witness ==
    /\ path = "short"
    /\ samples = MIN_SAMPLES - 1
    /\ Len(_speakers) = 2
    /\ ret = "Speaker 1"

C5_Step ==
    Extracted(path') /\ Len(_speakers) > 0 =>
        \E sim \in {[i \in 1..Len(_speakers) |->
                        _cosine_sim(embedding', _speakers[i].centroid)]} :
            LET IsMax(i) == \A j \in 1..Len(_speakers) : SimGE(sim[i], sim[j])
                First(i) == IsMax(i) /\ \A j \in 1..(i - 1) : ~IsMax(j)
            IN  /\ path' = "matched" <=>
                      \E i \in 1..Len(_speakers) :
                          IsMax(i) /\ SimGE(sim[i], Threshold)
                /\ path' = "matched" =>
                      \E i \in 1..Len(_speakers) :
                          First(i) /\ ret' = _speakers[i].label

(* C5: with an extracted embedding and a non-empty registry, the match is  *)
(* accepted exactly when the maximum similarity over all centroids is      *)
(* >= 0.82, and the label returned is that of the earliest entry having    *)
(* the maximum similarity.                                                 *)
C5_MatchRule == [][C5_Step]_vars

(* the similarity is exactly 0.82, and the match was accepted *)
C5_Witness ==
    /\ path = "matched"
    /\ embedding = Vec(<<7, 5, 5, 1>>)
    /\ Len(_speakers) > 0
    /\ _speakers[1].centroid = [num |-> <<34, 41, 5, 1>>, exp |-> 1]

C6_Step ==
    /\ Extracted(path')
    /\ \A i \in 1..Len(_speakers) :
           SimLess(_cosine_sim(embedding', _speakers[i].centroid), Threshold)
    =>
    /\ Len(_speakers') = Len(_speakers) + 1
    /\ SubSeq(_speakers', 1, Len(_speakers)) = _speakers
    /\ _speakers'[Len(_speakers')] =
           [label |-> "Speaker " \o ToString(Len(_speakers) + 1),
            centroid |-> embedding']
    /\ ret' = "Speaker " \o ToString(Len(_speakers) + 1)

(* C6: with an extracted embedding and either an empty registry or every   *)
(* similarity below 0.82, assign appends one entry at the end, labelled    *)
(* "Speaker " + (count before + 1) with the embedding as centroid, returns *)
(* that label and leaves the earlier entries as they were.                 *)
C6_Create == [][C6_Step]_vars

C6_Witness ==
    /\ path = "created"
    /\ Len(_speakers) = 2
    /\ _speakers[2].centroid = embedding
    /\ ret = "Speaker 2"

TenTimesIs(c1, c0, e) ==
    \A d \in 1..Len(c1.num) :
        10 * c1.num[d] * 10^(c0.exp) * 10^(e.exp) =
            10^(c1.exp) * (9 * c0.num[d] * 10^(e.exp) + e.num[d] * 10^(c0.exp))

C7_Step ==
    path' = "matched" =>
        /\ Len(_speakers') = Len(_speakers)
        /\ \E i \in 1..Len(_speakers) :
               /\ ret' = _speakers[i].label
               /\ TenTimesIs(_speakers'[i].centroid, _speakers[i].centroid,
                             embedding')
               /\ \A j \in 1..Len(_speakers) :
                      /\ _speakers'[j].label = _speakers[j].label
                      /\ j # i => _speakers'[j] = _speakers[j]

(* C7: on an accepted match of embedding e with the entry whose centroid   *)
(* is c0, that entry's centroid becomes 0.9*c0 + 0.1*e, and the count, the *)
(* order, every label and every other centroid stay as they were.          *)
C7_CentroidUpdate == [][C7_Step]_vars

C7_Witness ==
    /\ path = "matched"
    /\ Len(_speakers) = 2
    /\ ret = "Speaker 2"
    /\ _speakers[2].centroid = [num |-> <<10, 19, 0, 0>>, exp |-> 1]
    /\ embedding = Vec(<<1, 1, 0, 0>>)

(* C8: after reset the registry is empty, and the next assign with a long  *)
(* enough segment and a working backend returns "Speaker 1" and leaves     *)
(* exactly one entry.                                                      *)
C8_Reset ==
    path = "reset" =>
        /\ _speakers = <<>>
        /\ ~_load_failed =>
               \A n \in Lengths, e \in Embeddings :
                   n >= MIN_SAMPLES =>
                       \E o \in {assign_outcome(n, TRUE, TRUE, TRUE, e)} :
                           /\ o.ret = "Speaker 1"
                           /\ ~o.raised
                           /\ Len(o.speakers) = 1
                           /\ o.speakers[1].centroid = e

C8_Witness ==
    path = "reset" /\ _model # NoModel /\ _speakers = <<>>

C9_Failure ==
    _model # NoModel /\ path' = "embed_failed" /\ invoked' =>
        /\ ret' = "Speaker 1"
        /\ ~raised'
        /\ UNCHANGED <<_speakers, _model, _load_failed>>

C9_Retry ==
    path = "embed_failed" /\ invoked =>
        \A n \in Lengths, e \in Embeddings :
            n >= MIN_SAMPLES =>
                \E o \in {assign_outcome(n, TRUE, TRUE, TRUE, e)} :
                    /\ o.invoked
                    /\ Extracted(o.path)
                    /\ o.embedding = e
                    /\ o.speakers = _match_or_create(_speakers, e).speakers

(* C9: when the model is loaded and inference raises, assign returns       *)
(* "Speaker 1" and leaves the registry, the model handle and the           *)
(* unavailable flag as they were; the next assign whose inference succeeds *)
(* invokes the model and goes on to match-or-create.                       *)
C9_ExtractionFailure == []C9_Retry /\ [][C9_Failure]_vars

C9_Witness ==
    path = "embed_failed" /\ invoked /\ Len(_speakers) = 2

C10_AtMostOnce ==
    /\ load_calls <= 1
    /\ path = "init" => load_calls = 0 /\ _model = NoModel

C10_Step ==
    /\ load_calls' # load_calls =>
           load_calls = 0 /\ path' \in {"embed_failed", "matched", "created"}
    /\ path' \in {"embed_failed", "matched", "created"} => load_calls' = 1
    /\ _model # NoModel => _model' = _model
    /\ load_calls > 0 /\ _model = NoModel => load_calls' = load_calls

(* C10: the model load is attempted at most once: not at construction, not *)
(* by reset, not by a short segment; it is attempted by the first assign   *)
(* that reaches extraction; a loaded handle is kept by every later call,   *)
(* and after a failed load no call attempts it again.                      *)
C10_LazyLoadOnce == []C10_AtMostOnce /\ [][C10_Step]_vars

C10_Witness ==
    path = "matched" /\ load_calls = 1 /\ _model = 1 /\ Len(_speakers) = 1

(* Every embedding of p has similarity >= MATCH_THRESHOLD to one vector *)
RefSimilar(p) ==
    \E ref \in Embeddings :
        \A e \in p : SimGE(_cosine_sim(e, ref), Threshold)

(* Any two embeddings of p, and each with itself, have similarity >=       *)
(* MATCH_THRESHOLD                                                         *)
PairwiseSimilar(p) ==
    \A a \in p : \A b \in p : SimGE(_cosine_sim(a, b), Threshold)

OneLabel ==
    /\ Len(_speakers) <= 1
    /\ IsAssign(path) => ret = "Speaker 1"

(* C11 as stated: from an empty registry over a working backend, if every  *)
(* embedding has similarity >= MATCH_THRESHOLD to one fixed reference      *)
(* vector, every assign returns the same label and no second speaker is    *)
(* created.                                                                *)
C11_SameLabelNearReference ==
    RefSimilar(pool) => OneLabel

(* C11, amended: from an empty registry over a working backend, if the     *)
(* embeddings have pairwise similarity >= MATCH_THRESHOLD (each with       *)
(* itself too), every assign returns "Speaker 1" and no second speaker is  *)
(* created.                                                                *)
C11_SameLabelPairwise ==
    PairwiseSimilar(pool) => OneLabel

C11_Witness ==
    /\ PairwiseSimilar(pool)
    /\ Cardinality(pool) >= 3
    /\ path = "matched"
    /\ Len(_speakers) = 1
    /\ _speakers[1].centroid.exp = 1

C12_Step ==
    /\ IsAssign(path') =>
           /\ Len(_speakers') \in {Len(_speakers), Len(_speakers) + 1}
           /\ Len(_speakers') = Len(_speakers) + 1 => path' = "created"
           /\ \A i \in 1..Len(_speakers) :
                  /\ _speakers'[i].label = _speakers[i].label
                  /\ \/ _speakers'[i] = _speakers[i]
                     \/ path' = "matched" /\ ret' = _speakers[i].label
    /\ Len(_speakers') < Len(_speakers) => path' = "reset"

(* C12: every assign leaves the number of entries as it was or adds one,   *)
(* and adds one only by creating a speaker; no assign removes an entry or  *)
(* moves one to another position; only reset makes the registry shorter.   *)
C12_RegistryGrows == [][C12_Step]_vars

C12_Witness ==
    /\ path = "created"
    /\ samples = MIN_SAMPLES
    /\ Len(_speakers) = 2
    /\ _speakers[1].centroid.exp = 1

IsZero(v) == \A d \in 1..Len(v.num) : v.num[d] = 0

(* C13: an embedding of norm 0 has similarity 0 with every centroid, and   *)
(* every embedding has similarity 0 with a centroid of norm 0, so an       *)
(* assign whose embedding has norm 0 creates a speaker whatever the        *)
(* registry holds.                                                         *)
C13_ZeroEmbedding ==
    /\ \A i \in 1..Len(_speakers), e \in Embeddings :
           IsZero(e) \/ IsZero(_speakers[i].centroid) =>
               _cosine_sim(e, _speakers[i].centroid) = SimZero
    /\ ~_load_failed =>
           \A e \in Embeddings :
               IsZero(e) =>
                   \E o \in {assign_outcome(MIN_SAMPLES, TRUE, TRUE, TRUE, e)} :
                       /\ o.path = "created"
                       /\ Len(o.speakers) = Len(_speakers) + 1
    /\ Extracted(path) /\ IsZero(embedding) => path = "created"

C13_Witness ==
    /\ path = "created"
    /\ IsZero(embedding)
    /\ Len(_speakers) = 2
    /\ IsZero(_speakers[1].centroid)

C14_Step ==
    /\ Len(_speakers) = 0 /\ Extracted(path') =>
           /\ path' = "created"
           /\ ret' = "Speaker 1"
           /\ Len(_speakers') = 1
    /\ /\ Len(_speakers) = 1
       /\ path = "created"
       /\ Extracted(path')
       /\ SimLess(_cosine_sim(embedding', embedding), Threshold)
       =>
       /\ ret = "Speaker 1"
       /\ path' = "created"
       /\ ret' = "Speaker 2"
       /\ Len(_speakers') = 2

(* C14: from an empty registry over a working backend, two consecutive     *)
(* assigns with long enough segments whose embeddings have similarity      *)
(* below 0.82 return "Speaker 1" and then "Speaker 2" and leave two        *)
(* entries.                                                                *)
C14_TwoSpeakers == [][C14_Step]_vars

C14_Witness ==
    /\ path = "created"
    /\ ret = "Speaker 2"
    /\ Len(_speakers) = 2
    /\ _speakers[1].centroid = Vec(<<2, 1, 0, 0>>)
    /\ embedding = Vec(<<1, 2, 0, 0>>)

SimEq(x, y) == ~SimLess(x, y) /\ ~SimLess(y, x)

SelfSimilarity(v) ==
    IF IsZero(v) THEN _cosine_sim(v, v) = SimZero
    ELSE SimEq(_cosine_sim(v, v), SimOne)

(* C15: a vector of norm other than 0 has similarity 1 with itself, and a  *)
(* vector of norm 0 has similarity 0 with itself; so right after a speaker *)
(* is created from an embedding of norm other than 0, an assign with the   *)
(* same embedding matches that speaker: same label, no new entry.          *)
C15_SameEmbeddingMatches ==
    /\ \A e \in Embeddings : SelfSimilarity(e)
    /\ path = "created" /\ ~IsZero(embedding) =>
           \E o \in {assign_outcome(MIN_SAMPLES, TRUE, TRUE, TRUE, embedding)} :
               /\ o.path = "matched"
               /\ o.ret = ret
               /\ Len(o.speakers) = Len(_speakers)

C15_Witness ==
    /\ path = "matched"
    /\ ret = "Speaker 2"
    /\ Len(_speakers) = 2
    /\ embedding = Vec(<<-3, -4, 0, 0>>)
    /\ _speakers[2].centroid = embedding

(* C17: a loaded model and the unavailable flag never hold together, and   *)
(* while the unavailable flag is set the registry is empty.                *)
C17_LoadedOrUnavailable ==
    /\ ~(_model # NoModel /\ _load_failed)
    /\ _load_failed => _speakers = <<>>

C17_Witness ==
    /\ _load_failed
    /\ _model = NoModel
    /\ load_calls = 1
    /\ path = "reset"
    /\ _speakers = <<>>

(* C18: the label an assign returns is the label of an entry of the        *)
(* registry, or "Speaker 1" when the registry is empty after the call;     *)
(* the calls that leave without matching or creating return "Speaker 1",   *)
(* which is the first entry's label when there is an entry.                *)
C18_ReturnedLabelPresent ==
    IsAssign(path) =>
        /\ Len(_speakers) = 0 => ret = "Speaker 1"
        /\ Len(_speakers) > 0 =>
               \E i \in 1..Len(_speakers) : _speakers[i].label = ret
        /\ ~Extracted(path) =>
               /\ ret = "Speaker 1"
               /\ Len(_speakers) > 0 => _speakers[1].label = ret

C18_Witness ==
    /\ path = "embed_failed"
    /\ Len(_speakers) = 1
    /\ ret = _speakers[1].label

BothDone == \A t \in Threads : threads[t].pc = "done"

BothMatchedOne ==
    /\ BothDone
    /\ \A t \in Threads : threads[t].path = "matched"
    /\ threads[1].idx = threads[2].idx

(* The entry holds t's update of the centroid t read, and then u's update  *)
(* of that                                                                 *)
InOrder(t, u) ==
    /\ TenTimesIs(threads[u].old_centroid, threads[t].old_centroid,
                  threads[t].embedding)
    /\ TenTimesIs(_speakers[threads[u].idx].centroid,
                  threads[u].old_centroid, threads[u].embedding)

(* Both threads read the same centroid and the entry holds u's update of   *)
(* it alone                                                                *)
LostUpdate(u) ==
    /\ threads[1].old_centroid = threads[2].old_centroid
    /\ TenTimesIs(_speakers[threads[u].idx].centroid,
                  threads[u].old_centroid, threads[u].embedding)

(* C16: when two assign calls on two threads with no lock have both        *)
(* matched the same entry, its centroid holds either both updates, one     *)
(* applied to the result of the other, or, both threads having read the    *)
(* same old centroid, the update of one thread alone; when the two calls   *)
(* did not overlap it holds both updates.                                  *)
C16_CentroidRace ==
    BothMatchedOne =>
        /\ InOrder(1, 2) \/ InOrder(2, 1) \/ LostUpdate(1) \/ LostUpdate(2)
        /\ ~overlap => InOrder(1, 2) \/ InOrder(2, 1)

(* the update of thread 1 is lost *)
C16_Witness ==
    /\ BothMatchedOne
    /\ overlap
    /\ LostUpdate(2)
    /\ ~InOrder(1, 2)
    /\ ~InOrder(2, 1)
    /\ threads[1].embedding # threads[1].old_centroid

BothCreated ==
    /\ BothDone
    /\ \A t \in Threads : threads[t].path = "created"

(* C19: when two assign calls on two threads with no lock have both        *)
(* created a speaker, the registry holds two entries more; the two new     *)
(* entries have the same label exactly when both threads computed the      *)
(* label from the same count, which needs the calls to overlap; when the   *)
(* calls did not overlap, every entry at position i is labelled            *)
(* "Speaker i".                                                            *)
C19_LabelRace ==
    BothCreated =>
        LET n == Len(_speakers)
        IN  /\ n >= 2
            /\ {_speakers[n - 1].label, _speakers[n].label} =
                   {threads[t].new_label : t \in Threads}
            /\ threads[1].new_label = threads[2].new_label =>
                   /\ overlap
                   /\ threads[1].new_label = "Speaker " \o ToString(n - 1)
            /\ ~overlap =>
                   \A i \in 1..n : _speakers[i].label = "Speaker " \o ToString(i)

(* two entries labelled "Speaker 2" *)
C19_Witness ==
    /\ BothCreated
    /\ overlap
    /\ Len(_speakers) = 3
    /\ _speakers[2].label = "Speaker 2"
    /\ _speakers[3].label = "Speaker 2"
    /\ threads[1].ret = threads[2].ret

====
